---------------------------- MODULE Spec2Model ----------------------------
(***************************************************************************)
(* PeerNet python binding (peernet/_wrapper.py, peernet/_base.py) together *)
(* with the peer mesh engine it calls into (libpeer).                      *)
(*                                                                         *)
(* The methods of class peer are modelled from _wrapper.py.  The engine    *)
(* entry points declared in _base.py (the lib.peer_ functions) have no body *)
(* in this repository;                                                     *)
(* they are modelled from the specification of the engine                  *)
(* (membership registry, liveness state machine, handshake, messaging).    *)
(***************************************************************************)
EXTENDS Integers, Sequences, FiniteSets, TLC

(***************************************************************************)
(* Bounds of the model.                                                    *)
(***************************************************************************)
\* largest finite evasive_retry_count handed to set_evasive_retry_count
MaxRetry == 2

\* consecutive missed intervals tracked per peer (one more than MaxRetry)
MaxMissed == MaxRetry + 1

(***************************************************************************)
(* Instances (processes on the LAN) and the arguments they are created     *)
(* with.  An instance's address (uuid) is its identifier.                  *)
(***************************************************************************)
Instances == {"A", "B", "C"}

Groups == {"G1"}

Passphrases == {"p", "wrong"}

\* "" is rejected by validate_name; "bob", "Bob" share one canonical name
Names == {"ann", "bob", "Bob", "cat", ""}

MessageTypes == {"CHAT", ""}

Payloads == {<<>>, <<104, 105>>}

RetryCounts == {-1} \cup (1..MaxRetry)

\* the peer names handed to whisper
WhisperNames == {"Bob", "cat", ""}

\* the names an instance may be created with
NamesOf(i) ==
    CASE i = "A" -> {"ann", ""}
      [] i = "B" -> {"bob"}
      [] OTHER   -> {"bob", "Bob", "cat"}

\* the passphrases an instance may be created with
PassOf(i) == IF i = "C" THEN Passphrases ELSE {"p"}

VARIABLES
    obj,        \* obj[i]: "none" | "created" | "started": the peer object of i
    cfg,        \* cfg[i]: name, group, passphrase, retry count, eviction flag
    registry,   \* registry[i]: the membership registry, a sequence of Peer entries
    delivered,  \* delivered[i]: instances heard from in the current interval
    lasterr,    \* lasterr[i]: last internal status (peer_py_errno)
    raised,     \* events raised by the last step, in order
    sent,       \* messages handed to the transport by the last step
    ret,        \* outcome of the last call of a method of class peer
    subs,       \* subs[i]: the event dispatch table (subscriptions) of i
    invoked,    \* callback invocations of the last step, in order
    cbs,        \* cbs[i]: the maps _on_connect_cbs, ..., _on_message_cbs of i
    owned       \* owned[i]: the application holds a reference to the peer object of i

vars ==
    <<obj, cfg, registry, delivered, lasterr, raised, sent, ret, subs, invoked, cbs,
      owned>>

(***************************************************************************)
(* Identity & validation (engine).                                         *)
(***************************************************************************)
MaxNameLen == 3

\* canonical (case-insensitive) form of a peer name
Canon(n) ==
    CASE n = "ann" -> "ANN"
      [] n = "bob" -> "BOB"
      [] n = "Bob" -> "BOB"
      [] n = "cat" -> "CAT"
      [] n = "all" -> "ALL"
      [] OTHER     -> n

validate_name(n) ==
    IF Len(n) = 0 \/ Len(n) > MaxNameLen THEN "InvalidName" ELSE "OK"

validate_group(g) ==
    IF Len(g) = 0 THEN "InvalidGroup" ELSE "OK"

validate_message_type(t) ==
    IF Len(t) = 0 THEN "InvalidMessageType" ELSE "OK"

(***************************************************************************)
(* Records.                                                                *)
(***************************************************************************)
NoCfg == [name |-> "", group |-> "", pass |-> "", retry |-> -1, evict |-> FALSE]

NewPeer(r) == [name |-> cfg[r].name, addr |-> r, state |-> "ALIVE", missed |-> 0]

Event(l, k, n) == [at |-> l, kind |-> k, peer |-> n]

\* ret: the method called last (op) on instance at with arguments arg, and
\* the exception it raised (exc, with the engine status in val) if any
NoRet == [op |-> "none", at |-> "none", arg |-> <<>>, exc |-> "none", val |-> "none"]

Return(op, i, arg) ==
    [op |-> op, at |-> i, arg |-> arg, exc |-> "none", val |-> "none"]

Raise(op, i, arg, code) ==
    [op |-> op, at |-> i, arg |-> arg, exc |-> "RuntimeError", val |-> code]

\* a step of the event loop of instance i (no method was called)
Loop(op, i) == Return(op, i, <<>>)

\* the maps of registered callbacks of a peer object, empty
NoMaps ==
    [connect |-> <<>>, exit |-> <<>>, evasive |-> <<>>, silent |-> <<>>,
     message |-> <<>>]

\* m[k] = v
Put(m, k, v) == [x \in DOMAIN m \cup {k} |-> IF x = k THEN v ELSE m[x]]

\* if k in m.keys(): del m[k]
Del(m, k) == [x \in DOMAIN m \ {k} |-> m[x]]

(***************************************************************************)
(* Membership registry (engine).                                           *)
(***************************************************************************)
\* mutant: names are compared as they are written
HasName_CaseSensitive(reg, n) == \E j \in 1..Len(reg) : reg[j].name = n

HasName(reg, n) == \E j \in 1..Len(reg) : Canon(reg[j].name) = Canon(n)

HasAddr(reg, a) == \E j \in 1..Len(reg) : reg[j].addr = a

upsert(reg, e) ==
    IF HasName(reg, e.name)
    THEN [j \in 1..Len(reg) |->
            IF Canon(reg[j].name) = Canon(e.name) THEN e ELSE reg[j]]
    ELSE Append(reg, e)

remove(reg, n) == SelectSeq(reg, LAMBDA e : Canon(e.name) # Canon(n))

remove_addr(reg, a) == SelectSeq(reg, LAMBDA e : e.addr # a)

peer_exists(l, n) == HasName(registry[l], n)

(***************************************************************************)
(* Event dispatch table (engine): subscriptions keyed by event kind, scope *)
(* (canonical peer name or wildcard) and, for messages, message type.      *)
(***************************************************************************)
\* name = None of the registration methods: all peers
None == "None"

Key(kind, type, scope) == [kind |-> kind, type |-> type, scope |-> scope]

\* the wildcard scope (a null peer name): no peer name equals it
Wildcard == "(wildcard)"

\* the scope a registration call names

ScopeOf(name) == IF name = None THEN Wildcard ELSE Canon(name)

Registered(tab, key) == \E s \in tab : s.key = key

\* registering under a key that is taken replaces the callback
register(tab, key, cb) ==
    {s \in tab : s.key # key} \cup {[key |-> key, cb |-> cb]}

\* the table without the key, and the status: NotRegistered if it was not there
unregister(tab, key) ==
    [tab |-> {s \in tab : s.key # key},
     rc  |-> IF Registered(tab, key) THEN "OK" ELSE "NotRegistered"]

\* one invocation of a callback: (handle, type, remote name, data), and the
\* scope of the subscription it was found under
Invocation(l, s, type, peer, data) ==
    [at |-> l, cb |-> s.cb, kind |-> s.key.kind, scope |-> s.key.scope,
     type |-> type, peer |-> peer, data |-> data]

\* the callbacks of an event, the exact peer first, then the wildcard; a
\* message is looked up under its exact peer and type only
dispatch(l, tab, kind, type, peer, data) ==
    LET found(key) == IF Registered(tab, key)
                      THEN <<Invocation(l, CHOOSE s \in tab : s.key = key,
                                        type, peer, data)>>
                      ELSE <<>>
    IN  IF kind = "MESSAGE"
        THEN found(Key(kind, type, Canon(peer)))
        ELSE found(Key(kind, "", Canon(peer))) \o found(Key(kind, "", Wildcard))

\* the invocations that follow the events evs, in the order of the events
RECURSIVE DispatchEvents(_, _)
DispatchEvents(tabs, evs) ==
    IF Len(evs) = 0 THEN <<>>
    ELSE dispatch(evs[1].at, tabs[evs[1].at], evs[1].kind, evs[1].kind,
                  evs[1].peer, <<>>)
         \o DispatchEvents(tabs, Tail(evs))

\* the invocations at the recipients of the messages msgs: a message is
\* handed to the dispatch table of its recipient under the name of its sender
RECURSIVE Deliver(_, _)
Deliver(tabs, msgs) ==
    IF Len(msgs) = 0 THEN <<>>
    ELSE dispatch(msgs[1].to, tabs[msgs[1].to], "MESSAGE", msgs[1].type,
                  cfg[msgs[1].from].name, msgs[1].data)
         \o Deliver(tabs, Tail(msgs))

(***************************************************************************)
(* Lifecycle: peer.__init__, peer.start, peer.__del__.                     *)
(***************************************************************************)
peer_new(name, group, password) ==
    [name |-> name, group |-> group, pass |-> password,
     retry |-> -1, evict |-> FALSE]

\* mutant: the group and the password change places in the call of peer_new
peer_init_SwapsPassword(i, name, group, password) ==
    /\ obj[i] = "none"
    /\ validate_name(name) = "OK"
    /\ obj' = [obj EXCEPT ![i] = "created"]
    /\ cfg' = [cfg EXCEPT ![i] = peer_new(name, password, group)]
    /\ ret' = Return("init", i, <<name, group, password>>)
    /\ raised' = <<>>
    /\ sent' = <<>>
    /\ invoked' = <<>>
    /\ owned' = [owned EXCEPT ![i] = obj'[i] # "none"]
    /\ UNCHANGED <<registry, delivered, lasterr, subs, cbs>>

peer_init(i, name, group, password) ==
    /\ obj[i] = "none"
    /\ IF validate_name(name) # "OK"
       THEN /\ ret' = Raise("init", i, <<name, group, password>>, validate_name(name))
            /\ UNCHANGED <<obj, cfg>>
       ELSE IF validate_group(group) # "OK"
       THEN /\ ret' = Raise("init", i, <<name, group, password>>, validate_group(group))
            /\ UNCHANGED <<obj, cfg>>
       ELSE /\ obj' = [obj EXCEPT ![i] = "created"]
            /\ cfg' = [cfg EXCEPT ![i] = peer_new(name, group, password)]
            /\ ret' = Return("init", i, <<name, group, password>>)
    /\ raised' = <<>>
    /\ sent' = <<>>
    /\ invoked' = <<>>
    /\ owned' = [owned EXCEPT ![i] = obj'[i] # "none"]
    /\ UNCHANGED <<registry, delivered, lasterr, subs, cbs>>

start(i) ==
    /\ obj[i] = "created"
    /\ \E bound \in BOOLEAN :
         IF bound
         THEN /\ obj' = [obj EXCEPT ![i] = "started"]
              /\ ret' = Return("start", i, <<>>)
         ELSE /\ ret' = Raise("start", i, <<>>, "BindError")
              /\ UNCHANGED obj
    /\ raised' = <<>>
    /\ sent' = <<>>
    /\ invoked' = <<>>
    /\ UNCHANGED owned
    /\ UNCHANGED <<cfg, registry, delivered, lasterr, subs, cbs>>

\* events raised at the instances that tracked i when i leaves
ExitEvents(i) ==
    LET at(l) == IF l # i /\ HasAddr(registry[l], i)
                 THEN <<Event(l, "DISCONNECT", cfg[i].name)>> ELSE <<>>
    IN  at("A") \o at("B") \o at("C")

\* mutant: the peers dropped at teardown are announced to the callbacks of
\* the instance that is being destroyed
peer_del_NotifiesSelf(i) ==
    /\ obj[i] # "none"
    /\ obj' = [obj EXCEPT ![i] = "none"]
    /\ cfg' = [cfg EXCEPT ![i] = NoCfg]
    /\ registry' = [l \in Instances |->
                      IF l = i THEN <<>> ELSE remove_addr(registry[l], i)]
    /\ delivered' = [l \in Instances |->
                      IF l = i THEN {} ELSE delivered[l] \ {i}]
    /\ lasterr' = [lasterr EXCEPT ![i] = "OK"]
    /\ subs' = [subs EXCEPT ![i] = {}]
    /\ cbs' = [cbs EXCEPT ![i] = NoMaps]
    /\ raised' = ExitEvents(i)
                 \o [j \in 1..Len(registry[i]) |->
                       Event(i, "DISCONNECT", registry[i][j].name)]
    /\ invoked' = DispatchEvents(subs, raised')
    /\ owned' = [owned EXCEPT ![i] = FALSE]
    /\ sent' = <<>>
    /\ ret' = Return("del", i, <<>>)

peer_del(i) ==
    /\ obj[i] # "none"
    /\ obj' = [obj EXCEPT ![i] = "none"]
    /\ cfg' = [cfg EXCEPT ![i] = NoCfg]
    /\ registry' = [l \in Instances |->
                      IF l = i THEN <<>> ELSE remove_addr(registry[l], i)]
    /\ delivered' = [l \in Instances |->
                      IF l = i THEN {} ELSE delivered[l] \ {i}]
    /\ lasterr' = [lasterr EXCEPT ![i] = "OK"]
    /\ subs' = [subs EXCEPT ![i] = {}]
    /\ cbs' = [cbs EXCEPT ![i] = NoMaps]
    /\ raised' = ExitEvents(i)
    /\ invoked' = DispatchEvents(subs, raised')
    /\ owned' = [owned EXCEPT ![i] = FALSE]
    /\ sent' = <<>>
    /\ ret' = Return("del", i, <<>>)

(***************************************************************************)
(* Discovery: a beacon / heartbeat of r reaches the event loop of l.       *)
(***************************************************************************)
AuthOK(l, r) == cfg[r].group = cfg[l].group /\ cfg[r].pass = cfg[l].pass

\* the canonical name r announces is held at l by another instance
NameTaken(l, r) == HasName(registry[l], cfg[r].name) /\ ~HasAddr(registry[l], r)

Receive(l, r) ==
    /\ l # r
    /\ obj[l] = "started"
    /\ obj[r] = "started"
    /\ delivered' = [delivered EXCEPT ![l] = @ \cup {r}]
    /\ IF ~AuthOK(l, r)
       THEN /\ lasterr' = [lasterr EXCEPT ![l] = "AuthMismatch"]
            /\ raised' = <<>>
            /\ UNCHANGED registry
       ELSE IF NameTaken(l, r)
       THEN /\ raised' = <<>>
            /\ UNCHANGED <<registry, lasterr>>
       ELSE /\ registry' = [registry EXCEPT ![l] = upsert(@, NewPeer(r))]
            /\ raised' = IF HasAddr(registry[l], r) THEN <<>>
                         ELSE <<Event(l, "CONNECT", cfg[r].name)>>
            /\ UNCHANGED lasterr
    /\ invoked' = DispatchEvents(subs, raised')
    /\ UNCHANGED owned
    /\ sent' = <<>>
    /\ ret' = Loop("receive", l)
    /\ UNCHANGED <<obj, cfg, subs, cbs>>

(***************************************************************************)
(* Liveness state machine (engine): one discovery interval elapses at l.   *)
(* Every tracked peer not heard from in the interval has missed it.        *)
(***************************************************************************)
\* mutant: a missed interval changes the state but raises no event
MissedInterval_Silently(l, e) ==
    [entry |-> [e EXCEPT !.state = IF e.state = "ALIVE" THEN "EVASIVE" ELSE @,
                         !.missed = e.missed + 1],
     events |-> <<>>]

\* the entry of a peer that missed the interval, and the events that follow
MissedInterval(l, e) ==
    LET k == cfg[l].retry
        m == e.missed + 1
        reached == k # -1 /\ m >= k
    IN  CASE e.state = "ALIVE" ->
               IF reached
               THEN [entry |-> [e EXCEPT !.state = "SILENT", !.missed = m],
                     events |-> <<Event(l, "EVASIVE", e.name),
                                  Event(l, "SILENT", e.name)>>]
               ELSE [entry |-> [e EXCEPT !.state = "EVASIVE", !.missed = m],
                     events |-> <<Event(l, "EVASIVE", e.name)>>]
          [] e.state = "EVASIVE" ->
               IF reached
               THEN [entry |-> [e EXCEPT !.state = "SILENT", !.missed = m],
                     events |-> <<Event(l, "SILENT", e.name)>>]
               ELSE [entry |-> [e EXCEPT !.missed = m], events |-> <<>>]
          [] OTHER ->
               IF cfg[l].evict
               THEN [entry |-> [e EXCEPT !.state = "EVICTED"],
                     events |-> <<Event(l, "DISCONNECT", e.name)>>]
               ELSE [entry |-> e, events |-> <<>>]

\* mutant: the heartbeats received in the interval are not looked at
TickEntry_IgnoresHeartbeat(l, e) == MissedInterval(l, e)

TickEntry(l, e) ==
    IF e.addr \in delivered[l]
    THEN [entry |-> e, events |-> <<>>]
    ELSE MissedInterval(l, e)

RECURSIVE TickEvents(_, _, _)
TickEvents(l, reg, j) ==
    IF j > Len(reg) THEN <<>>
    ELSE TickEntry(l, reg[j]).events \o TickEvents(l, reg, j + 1)

\* entering EVICTED removes the entry from the registry
evict(reg) == SelectSeq(reg, LAMBDA e : e.state # "EVICTED")

LivenessTick(l) ==
    /\ obj[l] = "started"
    /\ \A j \in 1..Len(registry[l]) :
          registry[l][j].addr \notin delivered[l] => registry[l][j].missed < MaxMissed
    /\ registry' = [registry EXCEPT ![l] =
          evict([j \in 1..Len(@) |-> TickEntry(l, @[j]).entry])]
    /\ raised' = TickEvents(l, registry[l], 1)
    /\ invoked' = DispatchEvents(subs, raised')
    /\ UNCHANGED owned
    /\ delivered' = [delivered EXCEPT ![l] = {}]
    /\ sent' = <<>>
    /\ ret' = Loop("tick", l)
    /\ UNCHANGED <<obj, cfg, lasterr, subs, cbs>>

(***************************************************************************)
(* Configuration setters and queries of class peer.                        *)
(***************************************************************************)
peer_set_evasive_retry_count(c, retry_count) == [c EXCEPT !.retry = retry_count]

\* mutant: the count never reaches the engine
set_evasive_retry_count_Dropped(l, retry_count) ==
    /\ obj[l] # "none"
    /\ ret' = Return("set_evasive_retry_count", l, <<retry_count>>)
    /\ raised' = <<>>
    /\ sent' = <<>>
    /\ invoked' = <<>>
    /\ UNCHANGED owned
    /\ UNCHANGED <<obj, cfg, registry, delivered, lasterr, subs, cbs>>

\* mutant: the count is handed over as an unsigned number
set_evasive_retry_count_Unsigned(l, retry_count) ==
    /\ obj[l] # "none"
    /\ cfg' = [cfg EXCEPT ![l] = peer_set_evasive_retry_count(@,
                  IF retry_count < 0 THEN MaxRetry ELSE retry_count)]
    /\ ret' = Return("set_evasive_retry_count", l, <<retry_count>>)
    /\ raised' = <<>>
    /\ sent' = <<>>
    /\ invoked' = <<>>
    /\ UNCHANGED owned
    /\ UNCHANGED <<obj, registry, delivered, lasterr, subs, cbs>>

set_evasive_retry_count(l, retry_count) ==
    /\ obj[l] # "none"
    /\ cfg' = [cfg EXCEPT ![l] = peer_set_evasive_retry_count(@, retry_count)]
    /\ ret' = Return("set_evasive_retry_count", l, <<retry_count>>)
    /\ raised' = <<>>
    /\ sent' = <<>>
    /\ invoked' = <<>>
    /\ UNCHANGED owned
    /\ UNCHANGED <<obj, registry, delivered, lasterr, subs, cbs>>

peer_set_silent_eviction(c, enable) == [c EXCEPT !.evict = enable]

\* mutant: the flag is switched on whatever enable is
set_silent_eviction_AlwaysOn(l, enable) ==
    /\ obj[l] # "none"
    /\ cfg' = [cfg EXCEPT ![l] = peer_set_silent_eviction(@, TRUE)]
    /\ ret' = Return("set_silent_eviction", l, <<enable>>)
    /\ raised' = <<>>
    /\ sent' = <<>>
    /\ invoked' = <<>>
    /\ UNCHANGED owned
    /\ UNCHANGED <<obj, registry, delivered, lasterr, subs, cbs>>

set_silent_eviction(l, enable) ==
    /\ obj[l] # "none"
    /\ cfg' = [cfg EXCEPT ![l] = peer_set_silent_eviction(@, enable)]
    /\ ret' = Return("set_silent_eviction", l, <<enable>>)
    /\ raised' = <<>>
    /\ sent' = <<>>
    /\ invoked' = <<>>
    /\ UNCHANGED owned
    /\ UNCHANGED <<obj, registry, delivered, lasterr, subs, cbs>>

silent_eviction_enabled(l) == cfg[l].evict

\* mutant: the status of the validation is returned
exists_ReturnsValidation(l, name) ==
    IF validate_name(name) # "OK"
    THEN [exc |-> "RuntimeError", val |-> FALSE]
    ELSE [exc |-> "none", val |-> FALSE]

\* peer.exists: the value returned, or the exception raised
exists(l, name) ==
    IF validate_name(name) # "OK"
    THEN [exc |-> "RuntimeError", val |-> FALSE]
    ELSE [exc |-> "none", val |-> peer_exists(l, name)]

(***************************************************************************)
(* peer.list_connected: the engine hands back the registry as the text     *)
(* "name:uuid,name:uuid,..." (here a sequence of tokens), which the        *)
(* wrapper splits at "," and then at ":".                                  *)
(***************************************************************************)
RECURSIVE peer_py_list_connected(_)
peer_py_list_connected(reg) ==
    IF Len(reg) = 0 THEN <<>>
    ELSE IF Len(reg) = 1 THEN <<reg[1].name, ":", reg[1].addr>>
    ELSE <<reg[1].name, ":", reg[1].addr, ",">> \o peer_py_list_connected(Tail(reg))

\* str.split(sep): the pieces between the separators; one empty piece for ''
RECURSIVE split(_, _)
split(s, sep) ==
    IF \A j \in 1..Len(s) : s[j] # sep THEN <<s>>
    ELSE LET j == CHOOSE x \in 1..Len(s) :
                     s[x] = sep /\ \A y \in 1..(x - 1) : s[y] # sep
         IN  <<SubSeq(s, 1, j - 1)>> \o split(SubSeq(s, j + 1, Len(s)), sep)

\* the text of a piece
RECURSIVE text(_)
text(ts) == IF Len(ts) = 0 THEN "" ELSE ts[1] \o text(Tail(ts))

\* mutant: outmap[ws[1]] = ws[0]
RECURSIVE fill_SwapsFields(_, _)
fill_SwapsFields(ufouts, outmap) ==
    IF Len(ufouts) = 0 THEN [exc |-> "none", val |-> outmap]
    ELSE LET ws == split(ufouts[1], ":")
         IN  IF Len(ws) < 2 THEN [exc |-> "IndexError", val |-> outmap]
             ELSE fill_SwapsFields(Tail(ufouts),
                       [k \in DOMAIN outmap \cup {text(ws[2])} |->
                          IF k = text(ws[2]) THEN text(ws[1]) ELSE outmap[k]])

\* outmap[ws[0]] = ws[1] for each piece; IndexError when a piece has no ":"
RECURSIVE fill(_, _)
fill(ufouts, outmap) ==
    IF Len(ufouts) = 0 THEN [exc |-> "none", val |-> outmap]
    ELSE LET ws == split(ufouts[1], ":")
         IN  IF Len(ws) < 2 THEN [exc |-> "IndexError", val |-> outmap]
             ELSE fill(Tail(ufouts),
                       [k \in DOMAIN outmap \cup {text(ws[1])} |->
                          IF k = text(ws[1]) THEN text(ws[2]) ELSE outmap[k]])

list_connected(l) == fill(split(peer_py_list_connected(registry[l]), ","), <<>>)

\* the names list_connected reports (none when it raises)
Listed(l) ==
    IF list_connected(l).exc = "none" THEN DOMAIN list_connected(l).val ELSE {}

(***************************************************************************)
(* Messaging: peer.whisper, peer.whispers, peer.shout, peer.shouts.        *)
(***************************************************************************)
\* engine: the status of a whisper to name
peer_whisper(l, name, delivered_ok) ==
    IF ~peer_exists(l, name) THEN "UnknownPeer"
    ELSE IF ~delivered_ok THEN "SendFailure"
    ELSE "OK"

\* the address registered for a name
AddrOf(reg, n) ==
    LET j == CHOOSE x \in 1..Len(reg) : Canon(reg[x].name) = Canon(n)
    IN  reg[j].addr

\* mutant: the status of peer_whisper is not looked at
whisper_outcome_Unchecked(l, message_type, name, rc) ==
    Return("whisper", l, <<message_type, name>>)

\* if rc: raise RuntimeError(... self.strerror(self.errno()) ...)
whisper_outcome(l, message_type, name, rc) ==
    IF rc # "OK"
    THEN Raise("whisper", l, <<message_type, name>>, rc)
    ELSE Return("whisper", l, <<message_type, name>>)

whisper(l, message_type, name, data) ==
    /\ obj[l] # "none"
    /\ IF validate_name(name) # "OK"
       THEN /\ ret' = Raise("whisper", l, <<message_type, name>>, validate_name(name))
            /\ sent' = <<>>
            /\ UNCHANGED lasterr
       ELSE IF validate_message_type(message_type) # "OK"
       THEN /\ ret' = Raise("whisper", l, <<message_type, name>>,
                              validate_message_type(message_type))
            /\ sent' = <<>>
            /\ UNCHANGED lasterr
       ELSE \E delivered_ok \in BOOLEAN :
            LET rc == peer_whisper(l, name, delivered_ok)
            IN  /\ lasterr' = [lasterr EXCEPT ![l] = rc]
                /\ sent' = IF rc = "OK"
                           THEN <<[from |-> l, to |-> AddrOf(registry[l], name),
                                   type |-> message_type, data |-> data]>>
                           ELSE <<>>
                /\ ret' = whisper_outcome(l, message_type, name, rc)
    /\ raised' = <<>>
    /\ invoked' = Deliver(subs, sent')
    /\ UNCHANGED owned
    /\ UNCHANGED <<obj, cfg, registry, delivered, subs, cbs>>

\* the text payloads handed to whispers and shouts
Texts == {"", "hi"}

\* data.encode('utf-8')
encode(data) == IF data = "hi" THEN <<104, 105>> ELSE <<>>

\* engine: the text variant validates non-empty and delegates to the raw one
peer_whispers(l, name, bytes, delivered_ok) ==
    IF Len(bytes) = 0 THEN "EmptyPayload" ELSE peer_whisper(l, name, delivered_ok)

\* mutant: a text of length zero is handed on to the raw whisper
whispers_SendsEmpty(l, message_type, name, data) ==
    /\ obj[l] # "none"
    /\ IF validate_name(name) # "OK"
       THEN /\ ret' = Raise("whispers", l, <<message_type, name, data>>, validate_name(name))
            /\ sent' = <<>>
            /\ UNCHANGED lasterr
       ELSE IF validate_message_type(message_type) # "OK"
       THEN /\ ret' = Raise("whispers", l, <<message_type, name, data>>,
                              validate_message_type(message_type))
            /\ sent' = <<>>
            /\ UNCHANGED lasterr
       ELSE \E delivered_ok \in BOOLEAN :
            LET rc == peer_whisper(l, name, delivered_ok)
            IN  /\ lasterr' = [lasterr EXCEPT ![l] = rc]
                /\ sent' = IF rc = "OK"
                           THEN <<[from |-> l, to |-> AddrOf(registry[l], name),
                                   type |-> message_type, data |-> encode(data)]>>
                           ELSE <<>>
                /\ ret' = IF rc # "OK"
                          THEN Raise("whispers", l, <<message_type, name, data>>, rc)
                          ELSE Return("whispers", l, <<message_type, name, data>>)
    /\ raised' = <<>>
    /\ invoked' = Deliver(subs, sent')
    /\ UNCHANGED owned
    /\ UNCHANGED <<obj, cfg, registry, delivered, subs, cbs>>

whispers(l, message_type, name, data) ==
    /\ obj[l] # "none"
    /\ IF validate_name(name) # "OK"
       THEN /\ ret' = Raise("whispers", l, <<message_type, name, data>>, validate_name(name))
            /\ sent' = <<>>
            /\ UNCHANGED lasterr
       ELSE IF validate_message_type(message_type) # "OK"
       THEN /\ ret' = Raise("whispers", l, <<message_type, name, data>>,
                              validate_message_type(message_type))
            /\ sent' = <<>>
            /\ UNCHANGED lasterr
       ELSE IF Len(data) = 0
       THEN /\ ret' = Raise("whispers", l, <<message_type, name, data>>, "EmptyPayload")
            /\ sent' = <<>>
            /\ UNCHANGED lasterr
       ELSE \E delivered_ok \in BOOLEAN :
            LET rc == peer_whispers(l, name, encode(data), delivered_ok)
            IN  /\ lasterr' = [lasterr EXCEPT ![l] = rc]
                /\ sent' = IF rc = "OK"
                           THEN <<[from |-> l, to |-> AddrOf(registry[l], name),
                                   type |-> message_type, data |-> encode(data)]>>
                           ELSE <<>>
                /\ ret' = IF rc # "OK"
                          THEN Raise("whispers", l, <<message_type, name, data>>, rc)
                          ELSE Return("whispers", l, <<message_type, name, data>>)
    /\ raised' = <<>>
    /\ invoked' = Deliver(subs, sent')
    /\ UNCHANGED owned
    /\ UNCHANGED <<obj, cfg, registry, delivered, subs, cbs>>

\* engine: the message goes to every peer of the registry but those the
\* transport fails to reach (failed), in the order of the registry
RECURSIVE Multicast(_, _, _, _, _)
Multicast(l, reg, failed, message_type, data) ==
    IF Len(reg) = 0 THEN <<>>
    ELSE (IF reg[1].addr \in failed THEN <<>>
          ELSE <<[from |-> l, to |-> reg[1].addr,
                  type |-> message_type, data |-> data]>>)
         \o Multicast(l, Tail(reg), failed, message_type, data)

\* mutant: a shout that finds no peer in the group fails
peer_shout_NeedsMember(l, failed, message_type, data) ==
    [sent |-> Multicast(l, registry[l], failed, message_type, data),
     errno |-> IF Len(registry[l]) = 0 THEN "UnknownPeer"
               ELSE IF failed = {} THEN "OK" ELSE "SendFailure",
     rc |-> IF Len(registry[l]) = 0 THEN "UnknownPeer" ELSE "OK"]

\* engine: a recipient that was not reached is recorded in the last-error
\* status; the shout itself completes
peer_shout(l, failed, message_type, data) ==
    [sent |-> Multicast(l, registry[l], failed, message_type, data),
     errno |-> IF failed = {} THEN "OK" ELSE "SendFailure",
     rc |-> "OK"]

\* engine: the text variant validates non-empty and delegates to the raw one
peer_shouts(l, failed, message_type, bytes) ==
    IF Len(bytes) = 0
    THEN [sent |-> <<>>, errno |-> "EmptyPayload", rc |-> "EmptyPayload"]
    ELSE peer_shout(l, failed, message_type, bytes)

\* the peers a shout of l goes to
Recipients(l) == {registry[l][j].addr : j \in 1..Len(registry[l])}

shout(l, message_type, data) ==
    /\ obj[l] # "none"
    /\ IF validate_message_type(message_type) # "OK"
       THEN /\ ret' = Raise("shout", l, <<message_type>>,
                              validate_message_type(message_type))
            /\ sent' = <<>>
            /\ UNCHANGED lasterr
       ELSE \E failed \in SUBSET Recipients(l) :
            LET r == peer_shout(l, failed, message_type, data)
            IN  /\ lasterr' = [lasterr EXCEPT ![l] = r.errno]
                /\ sent' = r.sent
                /\ ret' = IF r.rc # "OK"
                          THEN Raise("shout", l, <<message_type>>, r.errno)
                          ELSE Return("shout", l, <<message_type>>)
    /\ raised' = <<>>
    /\ invoked' = Deliver(subs, sent')
    /\ UNCHANGED owned
    /\ UNCHANGED <<obj, cfg, registry, delivered, subs, cbs>>

shouts(l, message_type, data) ==
    /\ obj[l] # "none"
    /\ IF validate_message_type(message_type) # "OK"
       THEN /\ ret' = Raise("shouts", l, <<message_type, data>>,
                              validate_message_type(message_type))
            /\ sent' = <<>>
            /\ UNCHANGED lasterr
       ELSE IF Len(data) = 0
       THEN /\ ret' = Raise("shouts", l, <<message_type, data>>, "EmptyPayload")
            /\ sent' = <<>>
            /\ UNCHANGED lasterr
       ELSE \E failed \in SUBSET Recipients(l) :
            LET r == peer_shouts(l, failed, message_type, encode(data))
            IN  /\ lasterr' = [lasterr EXCEPT ![l] = r.errno]
                /\ sent' = r.sent
                /\ ret' = IF r.rc # "OK"
                          THEN Raise("shouts", l, <<message_type, data>>, r.errno)
                          ELSE Return("shouts", l, <<message_type, data>>)
    /\ raised' = <<>>
    /\ invoked' = Deliver(subs, sent')
    /\ UNCHANGED owned
    /\ UNCHANGED <<obj, cfg, registry, delivered, subs, cbs>>

(***************************************************************************)
(* Registration: the on_ and disable_on_ methods of class peer, and the    *)
(* engine entry points they call.  The maps _on_connect_cbs, ...,          *)
(* _on_message_cbs of the wrapper keep the callback objects referenced.    *)
(***************************************************************************)
Callbacks == {"f", "g"}

peer_py_on_connect(tab, peer, callback) ==
    [tab |-> register(tab, Key("CONNECT", "", ScopeOf(peer)), callback), rc |-> "OK"]

peer_py_on_disconnect(tab, peer, callback) ==
    [tab |-> register(tab, Key("DISCONNECT", "", ScopeOf(peer)), callback), rc |-> "OK"]

peer_py_on_message(tab, message_type, peer, callback) ==
    [tab |-> register(tab, Key("MESSAGE", message_type, Canon(peer)), callback),
     rc  |-> "OK"]

peer_py_disable_on_connect(tab, peer) ==
    unregister(tab, Key("CONNECT", "", ScopeOf(peer)))

peer_py_disable_on_disconnect(tab, peer) ==
    unregister(tab, Key("DISCONNECT", "", ScopeOf(peer)))

peer_py_disable_on_message(tab, message_type, peer) ==
    unregister(tab, Key("MESSAGE", message_type, Canon(peer)))

\* the key of a map of callbacks: name.upper(), or "ALL" for None
KeyOf(name) == IF name = None THEN "ALL" ELSE Canon(name)

\* '%s.%s'%(key_message, key_name)
MessageKeyOf(name, message_type) == Canon(message_type) \o "." \o Canon(name)

\* the end of a registration method: r is the answer of the engine; a status
\* other than OK is raised with the text of errno, otherwise the maps of
\* callbacks become maps
Answered(l, op, arg, r, maps) ==
    /\ subs' = [subs EXCEPT ![l] = r.tab]
    /\ lasterr' = [lasterr EXCEPT ![l] = r.rc]
    /\ IF r.rc # "OK"
       THEN /\ ret' = Raise(op, l, arg, r.rc)
            /\ UNCHANGED cbs
       ELSE /\ ret' = Return(op, l, arg)
            /\ cbs' = [cbs EXCEPT ![l] = maps]

\* the end of a registration method that raises before it calls the engine
Rejected(l, op, arg, code) ==
    /\ ret' = Raise(op, l, arg, code)
    /\ UNCHANGED <<subs, lasterr, cbs>>

\* the steps of a registration method that raise no event and send nothing
Silently ==
    /\ raised' = <<>>
    /\ sent' = <<>>
    /\ invoked' = <<>>
    /\ UNCHANGED owned
    /\ UNCHANGED <<obj, cfg, registry, delivered>>

on_connect(l, name, fcn) ==
    /\ obj[l] # "none"
    /\ IF name # None /\ validate_name(name) # "OK"
       THEN Rejected(l, "on_connect", <<name, fcn>>, validate_name(name))
       ELSE Answered(l, "on_connect", <<name, fcn>>,
                     peer_py_on_connect(subs[l], name, fcn),
                     [cbs[l] EXCEPT !.connect = Put(@, KeyOf(name), fcn)])
    /\ Silently

on_disconnect(l, name, fcn) ==
    /\ obj[l] # "none"
    /\ IF name # None /\ validate_name(name) # "OK"
       THEN Rejected(l, "on_disconnect", <<name, fcn>>, validate_name(name))
       ELSE Answered(l, "on_disconnect", <<name, fcn>>,
                     peer_py_on_disconnect(subs[l], name, fcn),
                     [cbs[l] EXCEPT !.exit = Put(@, KeyOf(name), fcn)])
    /\ Silently

\* the definition of disable_on_connect the class ends up with: the second
\* one (the first, which calls peer_py_disable_on_connect, is overwritten by
\* it in the class body, and no method is named disable_on_disconnect)
disable_on_connect(l, name) ==
    /\ obj[l] # "none"
    /\ IF name # None /\ validate_name(name) # "OK"
       THEN Rejected(l, "disable_on_connect", <<name>>, validate_name(name))
       ELSE Answered(l, "disable_on_connect", <<name>>,
                     peer_py_disable_on_disconnect(subs[l], name),
                     [cbs[l] EXCEPT !.exit = Del(@, KeyOf(name))])
    /\ Silently

\* ret = lib.peer_py_on_connect(self._handle, _peer, py_fcn)
on_evasive(l, name, fcn) ==
    /\ obj[l] # "none"
    /\ IF name # None /\ validate_name(name) # "OK"
       THEN Rejected(l, "on_evasive", <<name, fcn>>, validate_name(name))
       ELSE Answered(l, "on_evasive", <<name, fcn>>,
                     peer_py_on_connect(subs[l], name, fcn),
                     [cbs[l] EXCEPT !.evasive = Put(@, KeyOf(name), fcn)])
    /\ Silently

\* ret = lib.peer_py_disable_on_connect(self._handle, _peer)
disable_on_evasive(l, name) ==
    /\ obj[l] # "none"
    /\ IF name # None /\ validate_name(name) # "OK"
       THEN Rejected(l, "disable_on_evasive", <<name>>, validate_name(name))
       ELSE Answered(l, "disable_on_evasive", <<name>>,
                     peer_py_disable_on_connect(subs[l], name),
                     [cbs[l] EXCEPT !.evasive = Del(@, KeyOf(name))])
    /\ Silently

\* ret = lib.peer_py_on_connect(self._handle, _peer, py_fcn)
on_silent(l, name, fcn) ==
    /\ obj[l] # "none"
    /\ IF name # None /\ validate_name(name) # "OK"
       THEN Rejected(l, "on_silent", <<name, fcn>>, validate_name(name))
       ELSE Answered(l, "on_silent", <<name, fcn>>,
                     peer_py_on_connect(subs[l], name, fcn),
                     [cbs[l] EXCEPT !.silent = Put(@, KeyOf(name), fcn)])
    /\ Silently

\* ret = lib.peer_py_disable_on_connect(self._handle, _peer)
disable_on_silent(l, name) ==
    /\ obj[l] # "none"
    /\ IF name # None /\ validate_name(name) # "OK"
       THEN Rejected(l, "disable_on_silent", <<name>>, validate_name(name))
       ELSE Answered(l, "disable_on_silent", <<name>>,
                     peer_py_disable_on_connect(subs[l], name),
                     [cbs[l] EXCEPT !.silent = Del(@, KeyOf(name))])
    /\ Silently

\* the callback is put into _on_message_cbs before the engine is called:
\* lib.peer_py_on_message(self._handle, _peer, _message_type, py_fcn), an
\* entry point declared as (self, message_type, peer, callback)
on_message(l, name, message_type, fcn) ==
    /\ obj[l] # "none"
    /\ IF validate_name(name) # "OK"
       THEN Rejected(l, "on_message", <<name, message_type, fcn>>,
                     validate_name(name))
       ELSE IF validate_message_type(message_type) # "OK"
       THEN Rejected(l, "on_message", <<name, message_type, fcn>>,
                     validate_message_type(message_type))
       ELSE LET r == peer_py_on_message(subs[l], name, message_type, fcn)
            IN  /\ cbs' = [cbs EXCEPT ![l].message =
                              Put(@, MessageKeyOf(name, message_type), fcn)]
                /\ subs' = [subs EXCEPT ![l] = r.tab]
                /\ lasterr' = [lasterr EXCEPT ![l] = r.rc]
                /\ ret' = IF r.rc # "OK"
                          THEN Raise("on_message", l, <<name, message_type, fcn>>, r.rc)
                          ELSE Return("on_message", l, <<name, message_type, fcn>>)
    /\ Silently

\* lib.peer_py_disable_on_message(self._handle, _peer, _message_type), an
\* entry point declared as (self, message_type, peer); the key is then
\* deleted from _on_connect_cbs
disable_on_message(l, name, message_type) ==
    /\ obj[l] # "none"
    /\ IF validate_name(name) # "OK"
       THEN Rejected(l, "disable_on_message", <<name, message_type>>,
                     validate_name(name))
       ELSE IF validate_message_type(message_type) # "OK"
       THEN Rejected(l, "disable_on_message", <<name, message_type>>,
                     validate_message_type(message_type))
       ELSE Answered(l, "disable_on_message", <<name, message_type>>,
                     peer_py_disable_on_message(subs[l], name, message_type),
                     [cbs[l] EXCEPT !.connect =
                         Del(@, MessageKeyOf(name, message_type))])
    /\ Silently

Init ==
    /\ obj = [i \in Instances |-> "none"]
    /\ cfg = [i \in Instances |-> NoCfg]
    /\ registry = [i \in Instances |-> <<>>]
    /\ delivered = [i \in Instances |-> {}]
    /\ lasterr = [i \in Instances |-> "OK"]
    /\ raised = <<>>
    /\ sent = <<>>
    /\ ret = NoRet
    /\ subs = [i \in Instances |-> {}]
    /\ invoked = <<>>
    /\ cbs = [i \in Instances |-> NoMaps]
    /\ owned = [i \in Instances |-> FALSE]

Lifecycle(i) ==
    \/ \E n \in NamesOf(i), g \in Groups, p \in PassOf(i) : peer_init(i, n, g, p)
    \/ start(i)
    \/ peer_del(i)

Next ==
    \/ \E i \in Instances : Lifecycle(i)
    \/ \E r \in Instances : Receive("A", r)
    \/ LivenessTick("A")
    \/ \E k \in RetryCounts : set_evasive_retry_count("A", k)
    \/ \E b \in BOOLEAN : set_silent_eviction("A", b)
    \/ \E t \in MessageTypes, n \in WhisperNames, d \in Payloads :
          whisper("A", t, n, d)

Spec == Init /\ [][Next]_vars

(***************************************************************************)
(* Two instances A and B on a network that loses no beacon: a discovery    *)
(* interval of l ends only after the beacon of every started instance has  *)
(* reached l, and a beacon that can be received is received.               *)
(***************************************************************************)
Pair == {"A", "B"}

BeaconsArrived(l) ==
    \A r \in Instances \ {l} : obj[r] = "started" => r \in delivered[l]

PairTick(l) == BeaconsArrived(l) /\ LivenessTick(l)

PairNext ==
    \/ \E i \in Pair : \E n \in NamesOf(i), g \in Groups, p \in PassOf(i) :
          peer_init(i, n, g, p)
    \/ \E i \in Pair : start(i)
    \/ \E l \in Pair, r \in Pair : Receive(l, r)
    \/ \E l \in Pair : PairTick(l)
    \/ \E l \in Pair, k \in RetryCounts : set_evasive_retry_count(l, k)
    \/ \E l \in Pair, b \in BOOLEAN : set_silent_eviction(l, b)

PairSpec ==
    /\ Init
    /\ [][PairNext]_vars
    /\ WF_vars(Receive("A", "B"))
    /\ WF_vars(Receive("B", "A"))

(***************************************************************************)
(* Subscriptions: A registers callbacks and runs its event loop while B,   *)
(* named bob, comes, falls silent and goes.                                *)
(***************************************************************************)
\* the peer names handed to the registration methods
ScopeNames == {"bob", None}

DispatchNext ==
    \/ \E i \in Pair : Lifecycle(i)
    \/ Receive("A", "B")
    \/ LivenessTick("A")
    \/ set_evasive_retry_count("A", 1)
    \/ \E n \in ScopeNames, f \in Callbacks : on_connect("A", n, f)
    \/ \E n \in ScopeNames : on_disconnect("A", n, "g")
    \/ \E n \in ScopeNames : disable_on_connect("A", n)
    \/ \E n \in ScopeNames : on_evasive("A", n, "f")
    \/ on_silent("A", None, "g")

DispatchSpec == Init /\ [][DispatchNext]_vars

(***************************************************************************)
(* Messaging: A and B discover each other; A subscribes to the CHAT        *)
(* messages of bob, and B whispers and shouts, raw and text.               *)
(***************************************************************************)
MessageNext ==
    \/ \E i \in Pair : Lifecycle(i)
    \/ \E l \in Pair, r \in Pair : Receive(l, r)
    \/ \E f \in Callbacks : on_message("A", "bob", "CHAT", f)
    \/ disable_on_message("A", "bob", "CHAT")
    \/ \E d \in Payloads : whisper("B", "CHAT", "ann", d)
    \/ \E t \in MessageTypes, n \in {"ann", ""}, d \in Texts : whispers("B", t, n, d)
    \/ \E t \in MessageTypes, d \in Payloads : shout("B", t, d)
    \/ \E t \in MessageTypes, d \in Texts : shouts("B", t, d)

MessageSpec == Init /\ [][MessageNext]_vars

(***************************************************************************)
(* Object lifetime.  peer.__init__ enters the new object into the class    *)
(* attribute _peer_by_handle, and peer.__del__, which destroys the native  *)
(* instance, takes it out again.  The interpreter runs __del__ as soon as  *)
(* nothing refers to the object (collect); an object that is still         *)
(* referred to when the interpreter exits may or may not be finalised      *)
(* then (finalize).                                                        *)
(***************************************************************************)
\* the handles in _peer_by_handle: entered at __init__, deleted at __del__
peer_by_handle == {i \in Instances : obj[i] # "none"}

\* from_handle(ptr): None, or a proxy of the object entered under ptr
from_handle(ptr) == IF ptr \notin peer_by_handle THEN None ELSE ptr

\* what holds a strong reference to the peer object of i
Referrers(i) ==
    (IF owned[i] THEN {"application"} ELSE {})
    \cup (IF i \in peer_by_handle THEN {"_peer_by_handle"} ELSE {})

\* del this: the application drops its reference
del_this(i) ==
    /\ obj[i] # "none"
    /\ owned[i]
    /\ owned' = [owned EXCEPT ![i] = FALSE]
    /\ ret' = Return("del_this", i, <<>>)
    /\ raised' = <<>>
    /\ sent' = <<>>
    /\ invoked' = <<>>
    /\ UNCHANGED <<obj, cfg, registry, delivered, lasterr, subs, cbs>>

collect(i) == Referrers(i) = {} /\ peer_del(i)

finalize(i) == "application" \notin Referrers(i) /\ peer_del(i)

TeardownNext ==
    \/ \E i \in Pair : \E n \in NamesOf(i), g \in Groups, p \in PassOf(i) :
          peer_init(i, n, g, p)
    \/ \E i \in Pair : owned[i] /\ start(i)
    \/ \E i \in Pair : del_this(i)
    \/ \E i \in Pair : finalize(i)
    \/ \E l \in Pair, r \in Pair : Receive(l, r)
    \/ \E l \in Pair : LivenessTick(l)

TeardownSpec ==
    /\ Init
    /\ [][TeardownNext]_vars
    /\ \A i \in Pair : WF_vars(collect(i))

(***************************************************************************)
(* Keepalive maps: A registers and deregisters callbacks for the wildcard, *)
(* for a peer named "all" and for a peer named "T.N", and for messages of  *)
(* type T from peer N.  Every registration call wraps its function in a    *)
(* new object, py_fcn = callback_type(fcn): Made(op, name) is the object    *)
(* made by the call op(name, ...).                                         *)
(***************************************************************************)
KeepNames == {"all", "T.N", None}

Made(op, name) == op \o "/" \o name

KeepaliveNext ==
    \/ Lifecycle("A")
    \/ \E n \in KeepNames : on_connect("A", n, Made("on_connect", n))
    \/ \E n \in {None} : on_disconnect("A", n, Made("on_disconnect", n))
    \/ \E n \in {None} : disable_on_connect("A", n)
    \/ \E n \in {"all"} : on_evasive("A", n, Made("on_evasive", n))
    \/ \E n \in {"all"} : disable_on_evasive("A", n)
    \/ \E n \in {None} : on_silent("A", n, Made("on_silent", n))
    \/ \E n \in {None} : disable_on_silent("A", n)
    \/ on_message("A", "N", "T", Made("on_message", "N"))
    \/ disable_on_message("A", "N", "T")

KeepaliveSpec == Init /\ [][KeepaliveNext]_vars

(***************************************************************************)
(* Helpers of the properties.                                              *)
(***************************************************************************)
\* the entry registered for address a
EntryAt(reg, a) == reg[CHOOSE j \in 1..Len(reg) : reg[j].addr = a]

\* how often event e occurs in evs
Occurrences(evs, e) == Cardinality({j \in 1..Len(evs) : evs[j] = e})

\* event e1 occurs in evs before event e2
Before(evs, e1, e2) ==
    \E i, j \in 1..Len(evs) : i < j /\ evs[i] = e1 /\ evs[j] = e2

\* the peer at address a is registered at l in state st after the step
Becomes(l, a, st) ==
    HasAddr(registry'[l], a) /\ EntryAt(registry'[l], a).state = st

(***************************************************************************)
(* C1: a tracked peer whose heartbeat was received in the current          *)
(* discovery interval is ALIVE with a missed-counter of 0, and the         *)
(* liveness timer leaves it ALIVE when the interval elapses, raising no    *)
(* on_evasive, on_silent or on_disconnect event for it.  (A peer is ALIVE  *)
(* and heard from when it is added, so a peer heard from in every interval *)
(* is ALIVE in every state.)                                               *)
(***************************************************************************)
C1_HeardStaysAlive ==
    [][\A l \in Instances : \A j \in 1..Len(registry[l]) :
         LET e == registry[l][j]
         IN  e.addr \in delivered[l] =>
               /\ e.state = "ALIVE"
               /\ e.missed = 0
               /\ LivenessTick(l) =>
                    /\ Becomes(l, e.addr, "ALIVE")
                    /\ \A k \in {"EVASIVE", "SILENT", "DISCONNECT"} :
                          Occurrences(raised', Event(l, k, e.name)) = 0]_vars

\* an interval has elapsed at A and a peer heard from in it is still ALIVE,
\* while another peer, not heard from, is not
C1_Witness ==
    /\ ret.op = "tick"
    /\ \E j \in 1..Len(registry["A"]) : registry["A"][j].state = "ALIVE"
    /\ \E j \in 1..Len(registry["A"]) : registry["A"][j].state = "EVASIVE"

(***************************************************************************)
(* C2: an ALIVE peer leaves ALIVE exactly in the step in which a discovery *)
(* interval elapses without a heartbeat from it: no other step moves it    *)
(* out of ALIVE or raises on_evasive for it, and that step sets its        *)
(* missed-counter to 1, makes it EVASIVE and raises on_evasive for it      *)
(* exactly once.  (With evasive_retry_count = 1 the counter has reached    *)
(* the threshold in that same interval: the peer passes through EVASIVE,   *)
(* on_evasive first, and is SILENT when the step ends.)                    *)
(***************************************************************************)
C2_AliveToEvasive ==
    [][\A l \in Instances : \A j \in 1..Len(registry[l]) :
         LET e == registry[l][j]
             missedIt == LivenessTick(l) /\ e.addr \notin delivered[l]
         IN  e.state = "ALIVE" =>
               /\ missedIt =>
                    /\ HasAddr(registry'[l], e.addr)
                    /\ EntryAt(registry'[l], e.addr).missed = 1
                    /\ Occurrences(raised', Event(l, "EVASIVE", e.name)) = 1
                    /\ IF cfg[l].retry = 1
                       THEN /\ Becomes(l, e.addr, "SILENT")
                            /\ Before(raised', Event(l, "EVASIVE", e.name),
                                      Event(l, "SILENT", e.name))
                       ELSE Becomes(l, e.addr, "EVASIVE")
               /\ ~missedIt =>
                    /\ HasAddr(registry'[l], e.addr) => Becomes(l, e.addr, "ALIVE")
                    /\ Occurrences(raised', Event(l, "EVASIVE", e.name)) = 0]_vars

\* the interval has elapsed and a peer is EVASIVE after its first miss
C2_Witness ==
    /\ ret.op = "tick"
    /\ \E j \in 1..Len(registry["A"]) :
          /\ registry["A"][j].state = "EVASIVE"
          /\ registry["A"][j].missed = 1
          /\ raised = <<Event("A", "EVASIVE", registry["A"][j].name)>>

(***************************************************************************)
(* C3: with evasive_retry_count = k >= 1 (as handed to                     *)
(* set_evasive_retry_count), every interval a tracked peer misses adds one *)
(* to its missed-counter, and an EVASIVE peer becomes SILENT in exactly    *)
(* the missed interval in which the counter reaches k, on_silent being     *)
(* raised once then and not otherwise; no other step enters SILENT.  A     *)
(* heartbeat received from a tracked peer returns it to ALIVE with the     *)
(* counter at 0, so the count towards k starts again.                      *)
(***************************************************************************)
C3_EvasiveToSilent ==
    [][/\ ret'.op = "set_evasive_retry_count" =>
             cfg'[ret'.at].retry = ret'.arg[1]
       /\ \A l \in Instances : \A j \in 1..Len(registry[l]) :
            LET e == registry[l][j]
                k == cfg[l].retry
                missedIt == LivenessTick(l) /\ e.addr \notin delivered[l]
                silent == Event(l, "SILENT", e.name)
            IN  /\ (e.state = "EVASIVE" /\ missedIt /\ k >= 1) =>
                     /\ HasAddr(registry'[l], e.addr)
                     /\ EntryAt(registry'[l], e.addr).missed = e.missed + 1
                     /\ IF e.missed + 1 >= k
                        THEN /\ Becomes(l, e.addr, "SILENT")
                             /\ Occurrences(raised', silent) = 1
                        ELSE /\ Becomes(l, e.addr, "EVASIVE")
                             /\ Occurrences(raised', silent) = 0
                /\ (e.state # "SILENT" /\ Becomes(l, e.addr, "SILENT")) =>
                     /\ missedIt
                     /\ k >= 1
                     /\ EntryAt(registry'[l], e.addr).missed >= k
                /\ (e.state # "SILENT" /\ ~Becomes(l, e.addr, "SILENT")) =>
                     Occurrences(raised', silent) = 0
                /\ Receive(l, e.addr) =>
                     /\ Becomes(l, e.addr, "ALIVE")
                     /\ EntryAt(registry'[l], e.addr).missed = 0]_vars

\* k = 2: a peer was EVASIVE after one miss and is SILENT after the second
C3_Witness ==
    /\ ret.op = "tick"
    /\ cfg["A"].retry = 2
    /\ \E j \in 1..Len(registry["A"]) :
          /\ registry["A"][j].state = "SILENT"
          /\ registry["A"][j].missed = 2
          /\ raised = <<Event("A", "SILENT", registry["A"][j].name)>>

(***************************************************************************)
(* C4: while evasive_retry_count is -1 (the value set_evasive_retry_count  *)
(* hands to the engine as it is) no step moves a peer to SILENT or raises  *)
(* on_silent, and a missed interval leaves an EVASIVE peer EVASIVE and in  *)
(* the registry, however many intervals it has missed.                     *)
(***************************************************************************)
C4_RetryDisabled ==
    [][/\ ret'.op = "set_evasive_retry_count" =>
             cfg'[ret'.at].retry = ret'.arg[1]
       /\ \A l \in Instances : cfg[l].retry = -1 =>
            \A j \in 1..Len(registry[l]) :
               LET e == registry[l][j]
               IN  /\ e.state # "SILENT" =>
                        /\ ~Becomes(l, e.addr, "SILENT")
                        /\ Occurrences(raised', Event(l, "SILENT", e.name)) = 0
                   /\ (e.state = "EVASIVE" /\ LivenessTick(l)
                          /\ e.addr \notin delivered[l]) =>
                        /\ Becomes(l, e.addr, "EVASIVE")
                        /\ EntryAt(registry'[l], e.addr).missed = e.missed + 1]_vars

\* -1 was set, and a peer is EVASIVE after more misses than any finite count
C4_Witness ==
    /\ ret.op = "tick"
    /\ cfg["A"].retry = -1
    /\ \E j \in 1..Len(registry["A"]) :
          /\ registry["A"][j].state = "EVASIVE"
          /\ registry["A"][j].missed > MaxRetry

(***************************************************************************)
(* C5: a missed interval removes a SILENT peer (EVICTED, on_disconnect)    *)
(* only when the silent-eviction flag of the instance, as set by           *)
(* set_silent_eviction and reported by silent_eviction_enabled, is on, and *)
(* then it does.  With the flag off, a SILENT peer of a live instance is   *)
(* in the registry after every step but the disconnect of the remote, and  *)
(* is SILENT there unless a heartbeat from it has made it ALIVE.           *)
(***************************************************************************)
C5_SilentEviction ==
    [][/\ \A l \in Instances :
            (ret'.op = "set_silent_eviction" /\ ret'.at = l) =>
               silent_eviction_enabled(l)' = ret'.arg[1]
       /\ \A l \in Instances : \A j \in 1..Len(registry[l]) :
            LET e == registry[l][j]
                missedIt == LivenessTick(l) /\ e.addr \notin delivered[l]
            IN  e.state = "SILENT" =>
                  /\ (missedIt /\ silent_eviction_enabled(l)) =>
                        /\ ~HasAddr(registry'[l], e.addr)
                        /\ Occurrences(raised', Event(l, "DISCONNECT", e.name)) = 1
                  /\ (missedIt /\ ~silent_eviction_enabled(l)) =>
                        /\ Becomes(l, e.addr, "SILENT")
                        /\ Occurrences(raised', Event(l, "DISCONNECT", e.name)) = 0
                  /\ (~silent_eviction_enabled(l) /\ obj'[l] = "started"
                         /\ ~peer_del(e.addr)) =>
                        \/ Becomes(l, e.addr, "SILENT")
                        \/ Becomes(l, e.addr, "ALIVE") /\ Receive(l, e.addr)]_vars

\* flag off: an interval has elapsed on a SILENT peer, which is still there
C5_Witness ==
    /\ ret.op = "tick"
    /\ ~silent_eviction_enabled("A")
    /\ raised = <<>>
    /\ \E j \in 1..Len(registry["A"]) : registry["A"][j].state = "SILENT"

(***************************************************************************)
(* C6: the engine authenticates an instance with the passphrase (and       *)
(* group) peer.__init__ was given, and a remote instance r whose           *)
(* passphrase differs from that of l never becomes a Peer of l: the        *)
(* registry of l holds no entry for r, list_connected() of l reports no    *)
(* entry with the address of r, exists() is true for the name of r only    *)
(* when another, authenticated instance of that name is registered, and a  *)
(* beacon of r changes no registry entry and raises no event (no           *)
(* on_connect).                                                            *)
(***************************************************************************)
C6_WrongPassphrase ==
    [][/\ (ret'.op = "init" /\ ret'.exc = "none") =>
             /\ cfg'[ret'.at].name = ret'.arg[1]
             /\ cfg'[ret'.at].group = ret'.arg[2]
             /\ cfg'[ret'.at].pass = ret'.arg[3]
       /\ \A l, r \in Instances :
            (l # r /\ obj[l] # "none" /\ obj[r] # "none"
                /\ cfg[l].pass # cfg[r].pass) =>
               /\ ~HasAddr(registry[l], r)
               /\ list_connected(l).exc = "none" =>
                     \A n \in DOMAIN list_connected(l).val :
                        list_connected(l).val[n] # r
               /\ exists(l, cfg[r].name).val =>
                     \E r2 \in Instances \ {l, r} :
                        /\ Canon(cfg[r2].name) = Canon(cfg[r].name)
                        /\ cfg[r2].pass = cfg[l].pass
                        /\ HasAddr(registry[l], r2)
               /\ Receive(l, r) => (raised' = <<>> /\ registry' = registry)]_vars

\* A has heard the beacon of C, whose passphrase is wrong, and lists only B
C6_Witness ==
    /\ obj["C"] = "started"
    /\ cfg["C"].pass = "wrong"
    /\ cfg["A"].pass = "p"
    /\ "C" \in delivered["A"]
    /\ ret.op = "receive"
    /\ lasterr["A"] = "AuthMismatch"
    /\ Listed("A") = {"bob"}
    /\ ~exists("A", "cat").val
    /\ cfg["C"].name = "cat"

(***************************************************************************)
(* C8: in every reachable state a registry holds at most one entry per     *)
(* canonical (case-insensitive) peer name and per address, also when two   *)
(* authenticated remote instances announce names that are identical or     *)
(* differ only in case.                                                    *)
(***************************************************************************)
C8_OneEntryPerName ==
    \A l \in Instances : \A i, j \in 1..Len(registry[l]) :
       (Canon(registry[l][i].name) = Canon(registry[l][j].name)
           \/ registry[l][i].addr = registry[l][j].addr) => i = j

\* B ("bob") and C ("Bob"), same passphrase, have both been heard by A
C8_Witness ==
    /\ cfg["B"].name = "bob"
    /\ cfg["C"].name = "Bob"
    /\ cfg["C"].pass = cfg["A"].pass
    /\ delivered["A"] = {"B", "C"}
    /\ Len(registry["A"]) = 1

(***************************************************************************)
(* C9: no registry entry is in state EVICTED; after a step that removes a  *)
(* peer (eviction of a silent peer, disconnect of the remote: the steps    *)
(* raising on_disconnect) exists(name) is false for its name; exists(name) *)
(* turns from false to true only in a step that is a successful handshake  *)
(* with an instance of that name (on_connect raised), and after such a     *)
(* handshake it is true.                                                   *)
(***************************************************************************)
C9_RemovedUntilReadded ==
    [][\A l \in Instances :
         /\ \A j \in 1..Len(registry[l]) :
               registry[l][j].state \in {"ALIVE", "EVASIVE", "SILENT"}
         /\ \A n \in Names : validate_name(n) = "OK" =>
              LET joins(r) == /\ ret'.op = "receive"
                              /\ ret'.at = l
                              /\ Receive(l, r)
                              /\ AuthOK(l, r)
                              /\ Canon(cfg[r].name) = Canon(n)
                              /\ raised' = <<Event(l, "CONNECT", cfg[r].name)>>
              IN  /\ (\E j \in 1..Len(raised') :
                         /\ raised'[j].at = l
                         /\ raised'[j].kind = "DISCONNECT"
                         /\ Canon(raised'[j].peer) = Canon(n))
                        => ~exists(l, n)'.val
                  /\ (~exists(l, n).val /\ exists(l, n)'.val)
                        => \E r \in Instances : joins(r)
                  /\ (\E r \in Instances : joins(r)) => exists(l, n)'.val]_vars

\* a silent peer has just been evicted from A and exists() is false for it
C9_Witness ==
    /\ ret.op = "tick"
    /\ raised = <<Event("A", "DISCONNECT", "bob")>>
    /\ ~exists("A", "bob").val
    /\ ~exists("A", "Bob").val
    /\ obj["B"] = "started"

(***************************************************************************)
(* C10 as stated: a whisper to a syntactically valid peer name that is not *)
(* in the registry raises with status UnknownPeer, hands nothing to the    *)
(* transport and leaves the registry unchanged.                            *)
(***************************************************************************)
C10_Original ==
    [][\A l \in Instances, t \in MessageTypes, n \in WhisperNames, d \in Payloads :
         (/\ ret'.op = "whisper"
          /\ ret'.at = l
          /\ whisper(l, t, n, d)
          /\ validate_name(n) = "OK"
          /\ ~peer_exists(l, n)) =>
            /\ ret'.exc = "RuntimeError"
            /\ ret'.val = "UnknownPeer"
            /\ sent' = <<>>
            /\ registry' = registry]_vars

(***************************************************************************)
(* C10 amended: a whisper to a syntactically valid peer name that is not   *)
(* in the registry raises, with status UnknownPeer when the message type   *)
(* is valid and with the status of validate_message_type when it is not;   *)
(* in both cases nothing is handed to the transport and the registry is    *)
(* unchanged.                                                              *)
(***************************************************************************)
C10_UnknownPeer ==
    [][\A l \in Instances, t \in MessageTypes, n \in WhisperNames, d \in Payloads :
         (/\ ret'.op = "whisper"
          /\ ret'.at = l
          /\ whisper(l, t, n, d)
          /\ validate_name(n) = "OK"
          /\ ~peer_exists(l, n)) =>
            /\ ret'.exc = "RuntimeError"
            /\ ret'.val = IF validate_message_type(t) = "OK"
                          THEN "UnknownPeer" ELSE validate_message_type(t)
            /\ sent' = <<>>
            /\ registry' = registry]_vars

\* A tracks bob, and a whisper to cat has failed with UnknownPeer
C10_Witness ==
    /\ ret.op = "whisper"
    /\ ret.at = "A"
    /\ ret.arg = <<"CHAT", "cat">>
    /\ ret.val = "UnknownPeer"
    /\ lasterr["A"] = "UnknownPeer"
    /\ Listed("A") = {"bob"}
    /\ sent = <<>>

RegistrationOps ==
    {"on_connect", "on_disconnect", "on_evasive", "on_silent", "on_message"}

\* the event kind a registration method subscribes to
KindOf(op) ==
    CASE op = "on_connect"    -> "CONNECT"
      [] op = "on_disconnect" -> "DISCONNECT"
      [] op = "on_evasive"    -> "EVASIVE"
      [] op = "on_silent"     -> "SILENT"
      [] OTHER                -> "MESSAGE"

\* the places in invs of the invocations at l under the subscription
\* (kind, scope) for an event or message of the given type about peer
InvocationsOf(invs, l, kind, scope, type, peer) ==
    {j \in 1..Len(invs) :
        /\ invs[j].at = l
        /\ invs[j].kind = kind
        /\ invs[j].scope = scope
        /\ invs[j].type = type
        /\ invs[j].peer = peer}

\* peer name n is in the scope a registration call named
InScope(n, name) == name = None \/ Canon(n) = Canon(name)

(***************************************************************************)
(* C11: a registration (of callback B, whatever callback A was registered  *)
(* under the same key before) reports no error, and from then on an event  *)
(* matching the key (a CONNECT, DISCONNECT, EVASIVE or SILENT event about  *)
(* a peer in scope; a message of the type from the peer) invokes, under    *)
(* that key, B exactly once and no other callback.  Stated for the step    *)
(* that follows the registration.                                          *)
(***************************************************************************)
C11_ReplacesCallback ==
    [][\A l \in Instances :
         (ret.at = l /\ ret.op \in RegistrationOps /\ obj'[l] = "started") =>
            /\ ret.exc = "none"
            /\ ret.op # "on_message" =>
                 \A j \in 1..Len(raised') :
                    LET ev == raised'[j]
                        hits == InvocationsOf(invoked', l, KindOf(ret.op),
                                   ScopeOf(ret.arg[1]), ev.kind, ev.peer)
                    IN  (/\ ev.at = l
                         /\ ev.kind = KindOf(ret.op)
                         /\ InScope(ev.peer, ret.arg[1])) =>
                           /\ Cardinality(hits) = 1
                           /\ \A h \in hits : invoked'[h].cb = ret.arg[2]
            /\ ret.op = "on_message" =>
                 \A j \in 1..Len(sent') :
                    LET m == sent'[j]
                        hits == InvocationsOf(invoked', l, "MESSAGE",
                                   Canon(ret.arg[1]), m.type, cfg[m.from].name)
                    IN  (/\ m.to = l
                         /\ m.type = ret.arg[2]
                         /\ InScope(cfg[m.from].name, ret.arg[1])) =>
                           /\ Cardinality(hits) = 1
                           /\ \A h \in hits : invoked'[h].cb = ret.arg[3]]_vars

\* the map of the wrapper that holds the callbacks registered for a kind
MapOf(l, kind) ==
    CASE kind = "CONNECT"    -> cbs[l].connect
      [] kind = "DISCONNECT" -> cbs[l].exit
      [] kind = "EVASIVE"    -> cbs[l].evasive
      [] OTHER               -> cbs[l].silent

\* the places in invs of the invocations of cb at l, found under scope, for
\* the event of the given kind about peer
CallsOf(invs, l, cb, scope, kind, peer) ==
    {j \in 1..Len(invs) :
        /\ invs[j].at = l
        /\ invs[j].cb = cb
        /\ invs[j].scope = scope
        /\ invs[j].type = kind
        /\ invs[j].peer = peer}

(***************************************************************************)
(* C12: when an event of kind CONNECT, DISCONNECT, EVASIVE or SILENT about *)
(* peer X is raised at an instance that has a callback registered for that *)
(* kind with scope X and one registered for that kind with the wildcard    *)
(* scope, both are invoked for the event, each exactly once, the callback  *)
(* of scope X before the callback of the wildcard.                         *)
(***************************************************************************)
C12_ExactThenWildcard ==
    [][\A j \in 1..Len(raised') :
         LET ev == raised'[j]
             m == MapOf(ev.at, ev.kind)
             exact == CallsOf(invoked', ev.at, m[Canon(ev.peer)], Canon(ev.peer),
                              ev.kind, ev.peer)
             wild == CallsOf(invoked', ev.at, m["ALL"], Wildcard, ev.kind, ev.peer)
         IN  (Canon(ev.peer) \in DOMAIN m /\ "ALL" \in DOMAIN m) =>
                /\ Cardinality(exact) = 1
                /\ Cardinality(wild) = 1
                /\ \A a \in exact, b \in wild : a < b]_vars

(***************************************************************************)
(* C13: when an instance whispers a message of type T with payload p to a  *)
(* peer that has registered cb with on_message for the name of the sender  *)
(* and type T, the step invokes cb at the recipient exactly once, with     *)
(* message type T, the name of the sender and payload p, and invokes       *)
(* nothing else there (no callback registered for another peer or type).   *)
(***************************************************************************)
C13_MessageCallback ==
    [][(ret'.op \in {"whisper", "whispers"} /\ ret'.exc = "none") =>
         \A j \in 1..Len(sent') :
            LET m == sent'[j]
                l == m.to
                key == MessageKeyOf(cfg[m.from].name, m.type)
                at_l == SelectSeq(invoked', LAMBDA v : v.at = l)
            IN  key \in DOMAIN cbs[l].message =>
                  /\ Len(at_l) = 1
                  /\ at_l[1].cb = cbs[l].message[key]
                  /\ at_l[1].type = m.type
                  /\ at_l[1].peer = cfg[m.from].name
                  /\ at_l[1].data = m.data]_vars

\* no callback of instance i is among the invocations invs
NoneAt(invs, i) == \A j \in 1..Len(invs) : invs[j].at # i

C15_DisableUnregistered ==
    [][\A l \in Instances :
         ( /\ ret'.op \in {"disable_on_connect", "disable_on_message"}
           /\ ret'.at = l
           /\ ret'.val \notin {"InvalidName", "InvalidMessageType"}
           /\ subs[l] = {}
           /\ cbs[l] = NoMaps )
         => /\ subs' = subs
            /\ cbs' = cbs
            /\ lasterr'[l] = "NotRegistered"
            /\ ret'.exc = "none"]_vars

(***************************************************************************)
(* C16: a shout, raw or text, with a valid message type and a payload the  *)
(* variant accepts, on an instance whose registry holds no peer, returns   *)
(* normally, sends nothing and leaves the last status at OK.               *)
(***************************************************************************)
C16_ShoutToEmptyGroup ==
    [][\A l \in Instances :
         ( /\ ret'.op \in {"shout", "shouts"}
           /\ ret'.at = l
           /\ registry[l] = <<>>
           /\ validate_message_type(ret'.arg[1]) = "OK"
           /\ ret'.val # "EmptyPayload" )
         => /\ ret'.exc = "none"
            /\ sent' = <<>>
            /\ invoked' = <<>>
            /\ UNCHANGED owned
            /\ lasterr'[l] = "OK"]_vars

\* bob has shouted before it discovered anyone
C16_Witness ==
    /\ ret.op = "shout"
    /\ ret.at = "B"
    /\ ret.exc = "none"
    /\ obj["B"] = "started"
    /\ registry["B"] = <<>>
    /\ sent = <<>>
    /\ lasterr["B"] = "OK"

\* the text handed to the text variant r, and the status of its name
TextOf(r) == r.arg[Len(r.arg)]

NameStatusOf(r) == IF r.op = "whispers" THEN validate_name(r.arg[2]) ELSE "OK"

\* a step that sends nothing and leaves registry and subscriptions alone
NoTransport ==
    /\ sent' = <<>>
    /\ invoked' = <<>>
    /\ UNCHANGED owned
    /\ registry' = registry
    /\ subs' = subs

(***************************************************************************)
(* C17 as stated: whispers and shouts reject every text of length zero as  *)
(* EmptyPayload, with nothing sent and registry and subscription table     *)
(* unchanged, and report name and message-type validation failures         *)
(* without any transport action either.                                    *)
(***************************************************************************)
C17_Original ==
    [][\A l \in Instances :
         (ret'.op \in {"whispers", "shouts"} /\ ret'.at = l) =>
            /\ Len(TextOf(ret')) = 0 =>
                  /\ ret'.exc # "none"
                  /\ ret'.val = "EmptyPayload"
                  /\ NoTransport
            /\ (NameStatusOf(ret') # "OK"
                \/ validate_message_type(ret'.arg[1]) # "OK") =>
                  /\ ret'.exc # "none"
                  /\ NoTransport]_vars

(***************************************************************************)
(* C17: whispers and shouts validate the name, then the message type, then *)
(* the length of the text, and raise the first failure with nothing sent   *)
(* and registry and subscription table unchanged: a text of length zero is *)
(* rejected as EmptyPayload when name and message type are valid, and with *)
(* the validation status of the name or the message type otherwise.        *)
(***************************************************************************)
C17_EmptyText ==
    [][\A l \in Instances :
         (ret'.op \in {"whispers", "shouts"} /\ ret'.at = l) =>
            /\ NameStatusOf(ret') # "OK" =>
                  /\ ret'.exc # "none"
                  /\ ret'.val = NameStatusOf(ret')
                  /\ NoTransport
            /\ (NameStatusOf(ret') = "OK"
                /\ validate_message_type(ret'.arg[1]) # "OK") =>
                  /\ ret'.exc # "none"
                  /\ ret'.val = validate_message_type(ret'.arg[1])
                  /\ NoTransport
            /\ (NameStatusOf(ret') = "OK"
                /\ validate_message_type(ret'.arg[1]) = "OK"
                /\ Len(TextOf(ret')) = 0) =>
                  /\ ret'.exc # "none"
                  /\ ret'.val = "EmptyPayload"
                  /\ NoTransport]_vars

\* bob, which tracks ann, was refused an empty text for ann
C17_Witness ==
    /\ ret.op = "whispers"
    /\ ret.at = "B"
    /\ ret.arg = <<"CHAT", "ann", "">>
    /\ ret.val = "EmptyPayload"
    /\ \E j \in 1..Len(registry["B"]) : registry["B"][j].name = "ann"
    /\ sent = <<>>

(***************************************************************************)
(* C18: disable_on_connect(s) removes the CONNECT subscription of scope s  *)
(* and nothing else: a CONNECT event about a peer in scope that is raised  *)
(* in the step after the call invokes no callback under scope s, and the   *)
(* call leaves the DISCONNECT subscriptions, and the callbacks kept for    *)
(* them, as they were.                                                     *)
(***************************************************************************)
C18_DisableCounterparts ==
    [][\A l \in Instances :
         /\ (ret.op = "disable_on_connect" /\ ret.at = l) =>
               \A j \in 1..Len(raised') :
                  ( /\ raised'[j].at = l
                    /\ raised'[j].kind = "CONNECT"
                    /\ InScope(raised'[j].peer, ret.arg[1]) )
                  => InvocationsOf(invoked', l, "CONNECT", ScopeOf(ret.arg[1]),
                                   "CONNECT", raised'[j].peer) = {}
         /\ (ret'.op = "disable_on_connect" /\ ret'.at = l) =>
               /\ {s \in subs[l] : s.key.kind = "DISCONNECT"} \subseteq subs'[l]
               /\ cbs'[l].exit = cbs[l].exit]_vars

(***************************************************************************)
(* C19: after on_evasive(scope, cb) an EVASIVE event about a peer in scope *)
(* invokes cb, and after on_silent(scope, cb) a SILENT event about a peer  *)
(* in scope invokes cb, while a CONNECT event about such a peer does not   *)
(* invoke cb under that scope unless on_connect registered a callback for  *)
(* the scope.  Stated for the step that follows the registration.          *)
(***************************************************************************)
C19_EvasiveSilentKinds ==
    [][\A l \in Instances :
         ( /\ ret.op \in {"on_evasive", "on_silent"}
           /\ ret.at = l
           /\ ret.exc = "none" )
         => \A j \in 1..Len(raised') :
               (raised'[j].at = l /\ InScope(raised'[j].peer, ret.arg[1])) =>
                  /\ raised'[j].kind = KindOf(ret.op) =>
                        CallsOf(invoked', l, ret.arg[2], ScopeOf(ret.arg[1]),
                                KindOf(ret.op), raised'[j].peer) # {}
                  /\ ( /\ raised'[j].kind = "CONNECT"
                       /\ KeyOf(ret.arg[1]) \notin DOMAIN cbs[l].connect ) =>
                        CallsOf(invoked', l, ret.arg[2], ScopeOf(ret.arg[1]),
                                "CONNECT", raised'[j].peer) = {}]_vars

(***************************************************************************)
(* C20: in every state list_connected() of an instance returns a mapping   *)
(* that holds exactly the names of the peers in its registry, each with    *)
(* the address of that peer; with an empty registry it returns the empty   *)
(* mapping and raises nothing.                                             *)
(***************************************************************************)
C20_ListConnected ==
    \A l \in Instances :
       obj[l] # "none" =>
          /\ list_connected(l).exc = "none"
          /\ DOMAIN list_connected(l).val =
                {registry[l][j].name : j \in 1..Len(registry[l])}
          /\ \A j \in 1..Len(registry[l]) :
                list_connected(l).val[registry[l][j].name] = registry[l][j].addr

\* the callback objects the keepalive maps of l hold
Kept(l) ==
    {cbs[l].connect[k] : k \in DOMAIN cbs[l].connect}
    \cup {cbs[l].exit[k] : k \in DOMAIN cbs[l].exit}
    \cup {cbs[l].evasive[k] : k \in DOMAIN cbs[l].evasive}
    \cup {cbs[l].silent[k] : k \in DOMAIN cbs[l].silent}
    \cup {cbs[l].message[k] : k \in DOMAIN cbs[l].message}

(***************************************************************************)
(* C21: in every state, the callback object of every subscription in the   *)
(* dispatch table of an instance is held by one of the keepalive maps of   *)
(* that instance.                                                          *)
(***************************************************************************)
C21_KeepaliveHolds ==
    \A l \in Instances : \A s \in subs[l] : s.cb \in Kept(l)

\* a peer name in the scope a registration call named
SomePeerOf(name) == IF name = None THEN "bob" ELSE name

(***************************************************************************)
(* C22: a call of on_evasive, on_silent, disable_on_evasive or             *)
(* disable_on_silent for a scope that has a CONNECT subscription leaves    *)
(* that subscription as it was, so that a CONNECT event about a peer in    *)
(* scope invokes the same callbacks after the call as before it.           *)
(***************************************************************************)
C22_ConnectUnchanged ==
    [][\A l \in Instances :
         ( /\ ret'.op \in {"on_evasive", "on_silent",
                           "disable_on_evasive", "disable_on_silent"}
           /\ ret'.at = l
           /\ Registered(subs[l], Key("CONNECT", "", ScopeOf(ret'.arg[1]))) )
         => /\ {s \in subs'[l] : s.key = Key("CONNECT", "", ScopeOf(ret'.arg[1]))}
               = {s \in subs[l] : s.key = Key("CONNECT", "", ScopeOf(ret'.arg[1]))}
            /\ dispatch(l, subs'[l], "CONNECT", "CONNECT",
                        SomePeerOf(ret'.arg[1]), <<>>)
               = dispatch(l, subs[l], "CONNECT", "CONNECT",
                          SomePeerOf(ret'.arg[1]), <<>>)]_vars

(***************************************************************************)
(* C23: a disable_on_message(name, type) that returns normally leaves the  *)
(* message keepalive map without an entry for (type, name) and the         *)
(* connect, disconnect, evasive and silent keepalive maps as they were.    *)
(***************************************************************************)
C23_DisableOnMessageMaps ==
    [][\A l \in Instances :
         ( /\ ret'.op = "disable_on_message"
           /\ ret'.at = l
           /\ ret'.exc = "none" )
         => /\ MessageKeyOf(ret'.arg[1], ret'.arg[2]) \notin DOMAIN cbs'[l].message
            /\ cbs'[l].connect = cbs[l].connect
            /\ cbs'[l].exit = cbs[l].exit
            /\ cbs'[l].evasive = cbs[l].evasive
            /\ cbs'[l].silent = cbs[l].silent]_vars

(***************************************************************************)
(* C24: once the application has dropped its reference to a peer object,   *)
(* the object is eventually destroyed (the native instance is destroyed    *)
(* and the entry leaves _peer_by_handle), and from_handle answers None for *)
(* the handle of a destroyed instance.                                     *)
(***************************************************************************)
C24_DestroyedAfterDel ==
    /\ \A i \in Instances :
          (obj[i] # "none" /\ ~owned[i]) ~> (obj[i] = "none")
    /\ [](\A i \in Instances : obj[i] = "none" => from_handle(i) = None)

=============================================================================
